---- MODULE Spec2Model ----
(***************************************************************************)
(* MySQL Router charm: the database_requires resolver, the                 *)
(* database_provides user reconciler, the workload enable/disable switch   *)
(* and the status aggregation, as run once per lifecycle event.            *)
(*                                                                         *)
(* Relation equality (`relation not in _created_users()`) is by relation   *)
(* id.  Relation databags hold non-empty strings only.  The application    *)
(* status is aggregated as abstract_charm._determine_app_status does.      *)
(***************************************************************************)
EXTENDS Integers, Sequences, FiniteSets, TLC

VARIABLES
    is_leader,                      \* charm.is_leader
    container_ready,                \* container.ready
    mysql_router_service_enabled,   \* container.mysql_router_service_enabled
    router_user,                    \* the backend holds a router user tagged for this unit
    bootstrap_info,                 \* connection information of the last bootstrap
    listeners_confirmed,            \* both listeners accepted since the last bootstrap
    directories,                    \* the router's configuration and data directories
    requires,                       \* relations of the backend-database endpoint
    provides,                       \* relations of the database endpoint, by id
    users,                          \* application users that exist on the MySQL backend
    resolved,                       \* database_requires: connection_info, relation_breaking, status
    statuses,                       \* candidates given to the app status aggregation
    app_status,                     \* charm.app_status
    unit_status,                    \* charm.unit_status
    operation,                      \* leader branch taken by the last event
    shell_calls,                    \* create/delete calls issued by the last event
    event_result,                   \* how the last event ended
    workload_calls,                 \* calls made by enable()/disable() in the last event
    poll,                           \* what the last event's readiness poll saw
    steps,                          \* what the last event ran, in order
    changes                         \* relation/unit changes delivered so far

vars == <<is_leader, container_ready, mysql_router_service_enabled, router_user,
          bootstrap_info, listeners_confirmed, directories, requires, provides, users,
          resolved, statuses, app_status, unit_status, operation, shell_calls, event_result,
          workload_calls, poll, steps, changes>>

----------------------------------------------------------------------------
(* Bounds and value domains *)

MaxChanges == 4

MaxStatuses == 3

RelationIds == <<2, 12>>

RelationIdSet == {RelationIds[i] : i \in 1..Len(RelationIds)}

UpstreamUsernames == {"a", "a1"}

StatusTypes == {"blocked", "waiting", "maintenance", "unknown", "active"}

----------------------------------------------------------------------------
(* Databags *)

EmptyBag == [k \in {} |-> ""]

GrantKeys == {"database", "username", "password", "endpoints", "read-only-endpoints"}

ProvidesRemoteBags ==
    {EmptyBag,
     "database" :> "db",
     "extra-user-roles" :> "admin",
     ("database" :> "db") @@ ("extra-user-roles" :> "admin")}

RequiresCompleteBag(username) ==
    ("endpoints" :> "mysql:3306") @@ ("username" :> username) @@ ("password" :> "pw0")

\* Empty, complete, or complete but for one key.
RequiresRemoteBags ==
    {EmptyBag}
        \cup {RequiresCompleteBag(u) : u \in UpstreamUsernames}
        \cup {[k \in DOMAIN RequiresCompleteBag("a") \ {missing} |->
                    RequiresCompleteBag("a")[k]] :
                missing \in DOMAIN RequiresCompleteBag("a")}

NoRelation ==
    [exists |-> FALSE, breaking |-> FALSE, remote_app |-> EmptyBag, my_app |-> EmptyBag]

RemoteAppName(id) == "app" \o ToString(id)

RequiresRemoteAppName == "mysql"

----------------------------------------------------------------------------
(* Statuses *)

None == [type |-> "none", message |-> ""]

Status(type, message) == [type |-> type, message |-> message]

BlockedStatus(message) == Status("blocked", message)

WaitingStatus(message) == Status("waiting", message)

MaintenanceStatus(message) == Status("maintenance", message)

ActiveStatus == Status("active", "")

IsInstance(status, status_type) ==
    IF status_type = "StatusBase"
    THEN status.type \in StatusTypes
    ELSE status.type = status_type

status_priority == <<"blocked", "waiting", "maintenance", "StatusBase">>

\* Mutant: the last candidate of the type wins.
LastOfType(candidates, status_type) ==
    LET hits == SelectSeq(candidates, LAMBDA s: IsInstance(s, status_type))
    IN  IF hits = <<>> THEN None ELSE hits[Len(hits)]

\* The first status of `candidates` that is an instance of status_type, else None.
FirstOfType(candidates, status_type) ==
    LET hits == SelectSeq(candidates, LAMBDA s: IsInstance(s, status_type))
    IN  IF hits = <<>> THEN None ELSE hits[1]

RECURSIVE PrioritizeFrom(_, _)
PrioritizeFrom(candidates, i) ==
    IF i > Len(status_priority)
    THEN ActiveStatus
    ELSE IF FirstOfType(candidates, status_priority[i]) # None
         THEN FirstOfType(candidates, status_priority[i])
         ELSE PrioritizeFrom(candidates, i + 1)

prioritize_statuses(candidates) == PrioritizeFrom(candidates, 1)

----------------------------------------------------------------------------
(* relations/database_requires.py *)

RequiresMissingStatus == BlockedStatus("Missing relation: backend-database")

RequiresIncompleteStatus ==
    WaitingStatus("Waiting for " \o RequiresRemoteAppName \o " app on backend-database endpoint")

\* Mutant: the password is not read while resolving.
RequiresRemoteKeysWithoutPassword == {"endpoints", "username"}

\* The keys ConnectionInformation.__init__ reads inside its try block.
RequiresRemoteKeys == {"endpoints", "username", "password"}

RequiresLocalBag ==
    ("database" :> "mysql_innodb_cluster_metadata") @@ ("extra-user-roles" :> "mysqlrouter")

\* Mutant: more than one relation is reported as a status, like a missing relation.
ConnectionInformationCatchingAssertion(relations, leader) ==
    IF relations = <<>>
    THEN [assertion |-> FALSE, relations |-> relations, connection_info |-> None,
          relation_breaking |-> FALSE, status |-> RequiresMissingStatus]
    ELSE IF Len(relations) # 1
    THEN [assertion |-> FALSE, relations |-> relations, connection_info |-> None,
          relation_breaking |-> FALSE, status |-> RequiresMissingStatus]
    ELSE LET relation == relations[1]
             written  == IF leader
                         THEN <<[relation EXCEPT !.my_app = RequiresLocalBag @@ @]>>
                         ELSE relations
         IN  IF relation.breaking
             THEN [assertion |-> FALSE, relations |-> written, connection_info |-> None,
                   relation_breaking |-> TRUE, status |-> RequiresMissingStatus]
             ELSE IF RequiresRemoteKeys \subseteq DOMAIN relation.remote_app
             THEN [assertion |-> FALSE, relations |-> written,
                   connection_info |-> [k \in RequiresRemoteKeys |-> relation.remote_app[k]],
                   relation_breaking |-> FALSE, status |-> None]
             ELSE [assertion |-> FALSE, relations |-> written, connection_info |-> None,
                   relation_breaking |-> FALSE, status |-> RequiresIncompleteStatus]

\* Mutant: a relation that is breaking is not told from a missing one.
ConnectionInformationBreakingAsMissing(relations, leader) ==
    IF relations = <<>>
    THEN [assertion |-> FALSE, relations |-> relations, connection_info |-> None,
          relation_breaking |-> FALSE, status |-> RequiresMissingStatus]
    ELSE IF Len(relations) # 1
    THEN [assertion |-> TRUE, relations |-> relations, connection_info |-> None,
          relation_breaking |-> FALSE, status |-> None]
    ELSE LET relation == relations[1]
             written  == IF leader
                         THEN <<[relation EXCEPT !.my_app = RequiresLocalBag @@ @]>>
                         ELSE relations
         IN  IF relation.breaking
             THEN [assertion |-> FALSE, relations |-> written, connection_info |-> None,
                   relation_breaking |-> FALSE, status |-> RequiresMissingStatus]
             ELSE IF RequiresRemoteKeys \subseteq DOMAIN relation.remote_app
             THEN [assertion |-> FALSE, relations |-> written,
                   connection_info |-> [k \in RequiresRemoteKeys |-> relation.remote_app[k]],
                   relation_breaking |-> FALSE, status |-> None]
             ELSE [assertion |-> FALSE, relations |-> written, connection_info |-> None,
                   relation_breaking |-> FALSE, status |-> RequiresIncompleteStatus]

\* Mutant: the leader writes its request only once the connection information is there.
ConnectionInformationWritingOnSuccess(relations, leader) ==
    IF relations = <<>>
    THEN [assertion |-> FALSE, relations |-> relations, connection_info |-> None,
          relation_breaking |-> FALSE, status |-> RequiresMissingStatus]
    ELSE IF Len(relations) # 1
    THEN [assertion |-> TRUE, relations |-> relations, connection_info |-> None,
          relation_breaking |-> FALSE, status |-> None]
    ELSE LET relation == relations[1]
             written  == IF leader /\ ~relation.breaking
                            /\ RequiresRemoteKeys \subseteq DOMAIN relation.remote_app
                         THEN <<[relation EXCEPT !.my_app = RequiresLocalBag @@ @]>>
                         ELSE relations
         IN  IF relation.breaking
             THEN [assertion |-> FALSE, relations |-> written, connection_info |-> None,
                   relation_breaking |-> TRUE, status |-> RequiresMissingStatus]
             ELSE IF RequiresRemoteKeys \subseteq DOMAIN relation.remote_app
             THEN [assertion |-> FALSE, relations |-> written,
                   connection_info |-> [k \in RequiresRemoteKeys |-> relation.remote_app[k]],
                   relation_breaking |-> FALSE, status |-> None]
             ELSE [assertion |-> FALSE, relations |-> written, connection_info |-> None,
                   relation_breaking |-> FALSE, status |-> RequiresIncompleteStatus]

\* ConnectionInformation.__init__ followed by the module-level try/except:
\* the relations as left by the leader's databag write, and the outcome.
\* assertion = TRUE: the AssertionError for more than one relation escapes.
ConnectionInformation(relations, leader) ==
    IF relations = <<>>
    THEN [assertion |-> FALSE, relations |-> relations, connection_info |-> None,
          relation_breaking |-> FALSE, status |-> RequiresMissingStatus]
    ELSE IF Len(relations) # 1
    THEN [assertion |-> TRUE, relations |-> relations, connection_info |-> None,
          relation_breaking |-> FALSE, status |-> None]
    ELSE LET relation == relations[1]
             written  == IF leader
                         THEN <<[relation EXCEPT !.my_app = RequiresLocalBag @@ @]>>
                         ELSE relations
         IN  IF relation.breaking
             THEN [assertion |-> FALSE, relations |-> written, connection_info |-> None,
                   relation_breaking |-> TRUE, status |-> RequiresMissingStatus]
             ELSE IF RequiresRemoteKeys \subseteq DOMAIN relation.remote_app
             THEN [assertion |-> FALSE, relations |-> written,
                   connection_info |-> [k \in RequiresRemoteKeys |-> relation.remote_app[k]],
                   relation_breaking |-> FALSE, status |-> None]
             ELSE [assertion |-> FALSE, relations |-> written, connection_info |-> None,
                   relation_breaking |-> FALSE, status |-> RequiresIncompleteStatus]

----------------------------------------------------------------------------
(* relations/database_provides.py *)

\* Mutant: no separator between the prefix and the relation id.
get_username_without_separator(database_requires_username, id) ==
    database_requires_username \o ToString(id)

get_username(database_requires_username, id) ==
    database_requires_username \o "-" \o ToString(id)

\* charm.endpoints["database"]: the existing relations, in enumeration order.
Endpoints(prov) == SelectSeq(RelationIds, LAMBDA id: prov[id].exists)

InSeq(x, seq) == \E i \in 1..Len(seq): seq[i] = x

\* Mutant: a requested extra user role is not looked at.
RelationThatRequestedUserIgnoringRole(relation) ==
    IF relation.breaking THEN "_RelationBreaking"
    ELSE IF "database" \notin DOMAIN relation.remote_app THEN "_IncompleteDatabag"
    ELSE "ok"

\* _RelationThatRequestedUser.__init__: "ok", or the exception it raises.
RelationThatRequestedUser(relation) ==
    IF relation.breaking THEN "_RelationBreaking"
    ELSE IF "database" \notin DOMAIN relation.remote_app THEN "_IncompleteDatabag"
    ELSE IF "extra-user-roles" \in DOMAIN relation.remote_app THEN "_UnsupportedExtraUserRole"
    ELSE "ok"

\* Mutant: the check also expects a key create_database_and_user never writes.
RelationWithCreatedUserExtraKey(relation) ==
    (GrantKeys \cup {"extra-user-roles"}) \subseteq DOMAIN relation.my_app

\* _RelationWithCreatedUser.__init__ does not raise _UserNotCreated.
RelationWithCreatedUser(relation) == GrantKeys \subseteq DOMAIN relation.my_app

\* Mutant: the first exception ends the scan of the relations.
requested_users_until_exception(prov) ==
    LET ids == SelectSeq(RelationIds, LAMBDA id: prov[id].exists)
        bad == {i \in 1..Len(ids) : RelationThatRequestedUser(prov[ids[i]]) # "ok"}
    IN  IF bad = {} THEN ids
        ELSE SubSeq(ids, 1, (CHOOSE i \in bad : \A j \in bad : i <= j) - 1)

requested_users(prov) ==
    SelectSeq(Endpoints(prov), LAMBDA id: RelationThatRequestedUser(prov[id]) = "ok")

\* Mutant: a grant counts as created only while its database is the one requested.
created_users_with_requested_database(prov) ==
    SelectSeq(Endpoints(prov),
              LAMBDA id: /\ RelationWithCreatedUser(prov[id])
                         /\ "database" \in DOMAIN prov[id].remote_app
                                => prov[id].my_app["database"] = prov[id].remote_app["database"])

created_users(prov) ==
    SelectSeq(Endpoints(prov), LAMBDA id: RelationWithCreatedUser(prov[id]))

ReadWriteEndpoint == "file:///var/snap/charmed-mysql/common/run/mysqlrouter/mysql.sock"

ReadOnlyEndpoint == "file:///var/snap/charmed-mysql/common/run/mysqlrouter/mysqlro.sock"

GeneratedPassword == "generated"

\* Mutant: the read-only endpoint is not written.
GrantBagWithoutReadOnly(database, username, password) ==
    ("database" :> database) @@ ("username" :> username) @@ ("password" :> password)
        @@ ("endpoints" :> ReadWriteEndpoint)

\* The five assignments to my_app of create_database_and_user.
GrantBag(database, username, password) ==
    ("database" :> database) @@ ("username" :> username) @@ ("password" :> password)
        @@ ("endpoints" :> ReadWriteEndpoint) @@ ("read-only-endpoints" :> ReadOnlyEndpoint)

\* st = [provides, users, calls, raised]; the fail_at-th shell call of the pass raises.
create_database_and_user(st, id, shell_username, fail_at) ==
    LET username == get_username(shell_username, id)
        calls    == Append(st.calls, <<"create_application_database_and_user", username>>)
    IN  IF Len(calls) = fail_at
        THEN [st EXCEPT !.calls = calls, !.raised = TRUE]
        ELSE [st EXCEPT !.calls = calls,
                        !.users = @ \cup {username},
                        !.provides[id].my_app =
                            GrantBag(st.provides[id].remote_app["database"], username,
                                     GeneratedPassword) @@ @]

delete_databag(st, id) == [st EXCEPT !.provides[id].my_app = EmptyBag]

\* Mutant: the backend user is deleted first, the databag cleared afterwards.
delete_user_before_databag(st, id, shell_username, fail_at) ==
    LET username == get_username(shell_username, id)
        calls    == Append(st.calls, <<"delete_user", username>>)
    IN  IF Len(calls) = fail_at
        THEN [st EXCEPT !.calls = calls, !.raised = TRUE]
        ELSE delete_databag([st EXCEPT !.calls = calls, !.users = @ \ {username}], id)

delete_user(st, id, shell_username, fail_at) ==
    LET cleared  == delete_databag(st, id)
        username == get_username(shell_username, id)
        calls    == Append(st.calls, <<"delete_user", username>>)
    IN  IF Len(calls) = fail_at
        THEN [cleared EXCEPT !.calls = calls, !.raised = TRUE]
        ELSE [cleared EXCEPT !.calls = calls, !.users = @ \ {username}]

RECURSIVE CreateLoop(_, _, _, _, _)
CreateLoop(requested, i, st, shell_username, fail_at) ==
    IF i > Len(requested) \/ st.raised
    THEN st
    ELSE CreateLoop(requested, i + 1,
                    IF ~InSeq(requested[i], created_users(st.provides))
                    THEN create_database_and_user(st, requested[i], shell_username, fail_at)
                    ELSE st,
                    shell_username, fail_at)

RECURSIVE DeleteLoop(_, _, _, _, _, _)
DeleteLoop(created, i, requested, st, shell_username, fail_at) ==
    IF i > Len(created) \/ st.raised
    THEN st
    ELSE DeleteLoop(created, i + 1, requested,
                    IF ~InSeq(created[i], requested)
                    THEN delete_user(st, created[i], shell_username, fail_at)
                    ELSE st,
                    shell_username, fail_at)

\* Mutant: inactive users are not deleted.
reconcile_users_without_delete(prov, backend_users, shell_username, fail_at) ==
    CreateLoop(requested_users(prov), 1,
               [provides |-> prov, users |-> backend_users, calls |-> <<>>, raised |-> FALSE],
               shell_username, fail_at)

reconcile_users(prov, backend_users, shell_username, fail_at) ==
    LET requested == requested_users(prov)
        st0 == [provides |-> prov, users |-> backend_users, calls |-> <<>>, raised |-> FALSE]
        st1 == CreateLoop(requested, 1, st0, shell_username, fail_at)
    IN  DeleteLoop(created_users(st1.provides), 1, requested, st1, shell_username, fail_at)

\* Mutant: only the databags of the relations that still request a user are cleared.
delete_all_databags_of_requested_users(prov) ==
    [id \in DOMAIN prov |->
        IF InSeq(id, requested_users(prov)) THEN [prov[id] EXCEPT !.my_app = EmptyBag]
        ELSE prov[id]]

delete_all_databags(prov) ==
    [id \in DOMAIN prov |->
        IF InSeq(id, created_users(prov)) THEN [prov[id] EXCEPT !.my_app = EmptyBag]
        ELSE prov[id]]

ProvidesIncompleteStatus(id) ==
    WaitingStatus("Waiting for " \o RemoteAppName(id) \o " app on database endpoint")

ProvidesUnsupportedStatus(id) ==
    BlockedStatus(RemoteAppName(id)
                  \o " app requested unsupported extra user role on database endpoint")

ProvidesMissingStatus == BlockedStatus("Missing relation: database")

\* Mutant: an incomplete databag is reported ahead of an unsupported role.
exception_reporting_priority_reversed == <<"_IncompleteDatabag", "_UnsupportedExtraUserRole">>

exception_reporting_priority == <<"_UnsupportedExtraUserRole", "_IncompleteDatabag">>

\* The relations of get_status whose construction raised exception_type, in order.
Exceptions(prov, exception_type) ==
    SelectSeq(Endpoints(prov), LAMBDA id: RelationThatRequestedUser(prov[id]) = exception_type)

ExceptionStatus(exception_type, id) ==
    IF exception_type = "_UnsupportedExtraUserRole"
    THEN ProvidesUnsupportedStatus(id)
    ELSE ProvidesIncompleteStatus(id)

RECURSIVE GetStatusFrom(_, _)
GetStatusFrom(prov, i) ==
    IF i > Len(exception_reporting_priority)
    THEN IF requested_users(prov) = <<>> THEN ProvidesMissingStatus ELSE None
    ELSE IF Exceptions(prov, exception_reporting_priority[i]) # <<>>
         THEN ExceptionStatus(exception_reporting_priority[i],
                              Exceptions(prov, exception_reporting_priority[i])[1])
         ELSE GetStatusFrom(prov, i + 1)

\* Mutant: "Missing relation" is reported only when no relation exists at all.
get_status_missing_without_endpoints(prov) ==
    IF GetStatusFrom(prov, 1) = ProvidesMissingStatus /\ Endpoints(prov) # <<>>
    THEN None
    ELSE GetStatusFrom(prov, 1)

get_status(prov) == GetStatusFrom(prov, 1)

----------------------------------------------------------------------------
(* workload.py *)

\* Mutant: the container is not looked at.
workload_status_ignoring_container(authenticated, ready, router_in_cluster_set) ==
    IF authenticated /\ ~router_in_cluster_set
    THEN BlockedStatus("Router was manually removed from MySQL ClusterSet. Remove & re-deploy unit")
    ELSE None

\* Workload.status / AuthenticatedWorkload.status
workload_status(authenticated, ready, router_in_cluster_set) ==
    IF ~ready THEN MaintenanceStatus("Waiting for container")
    ELSE IF authenticated /\ ~router_in_cluster_set
    THEN BlockedStatus("Router was manually removed from MySQL ClusterSet. Remove & re-deploy unit")
    ELSE None

\* The local listener ports the readiness poll connects to, in order.
Ports == <<6446, 6447>>

\* tenacity.wait_fixed(5): seconds slept between two attempts.
WaitFixed == 5

\* tenacity.stop_after_delay(30): no further attempt once this many seconds have passed.
StopAfterDelay == 30

\* The attempt from which a listener accepts connections; 0: it never does.  (Later
\* attempts are explored by the specification of the poll on its own.)
ListenerOpensAt == {0, 1}

\* Seconds one attempt spends connecting (a connection to localhost is refused or
\* accepted at once).
ConnectSeconds == {0}

Accepts(opens, port, attempt) == opens[port] > 0 /\ opens[port] <= attempt

\* Mutant: only the read-write listener is probed.
AttemptSucceedsOnFirstPort(opens, attempt) == Accepts(opens, Ports[1], attempt)

\* One attempt of the poll: connect_ex returns 0 on every port.
AttemptSucceeds(opens, attempt) ==
    \A i \in 1..Len(Ports) : Accepts(opens, Ports[i], attempt)

\* tenacity.Retrying(reraise, stop_after_delay, wait_fixed): `elapsed` seconds have
\* passed when attempt number `attempt` starts.
RECURSIVE Retrying(_, _, _, _)
Retrying(opens, connect_seconds, attempt, elapsed) ==
    LET now == elapsed + connect_seconds
    IN  IF AttemptSucceeds(opens, attempt)
        THEN [ready |-> TRUE, attempts |-> attempt, waited |-> now]
        ELSE IF now >= StopAfterDelay
        THEN [ready |-> FALSE, attempts |-> attempt, waited |-> now]
        ELSE Retrying(opens, connect_seconds, attempt + 1, now + WaitFixed)

\* No attempt was made.
NoPoll == [ready |-> FALSE, attempts |-> 0, waited |-> 0]

\* AuthenticatedWorkload.wait_until_mysql_router_ready: how the poll ended, with the
\* behaviour of the listeners it ran against.
wait_until_mysql_router_ready(opens, connect_seconds) ==
    LET retried == Retrying(opens, connect_seconds, 1, 0)
    IN  [opens |-> opens, connect_seconds |-> connect_seconds, ready |-> retried.ready,
         attempts |-> retried.attempts, waited |-> retried.waited]

\* The two directories disable() wipes: each is absent, empty, or holds what the
\* bootstrap wrote.
DirectoryNames == {"router_config_directory", "router_data_directory"}

EmptyDirectories == [d \in DirectoryNames |-> "empty"]

\* The directories after `mysqlrouter --bootstrap` has succeeded: configuration file and
\* state file are written.
BootstrappedDirectories == [d \in DirectoryNames |-> "populated"]

\* Path.rmtree
rmtree(dirs, d) == [dirs EXCEPT ![d] = "absent"]

\* Path.mkdir
mkdir(dirs, d) == [dirs EXCEPT ![d] = IF @ = "absent" THEN "empty" ELSE @]

\* _cleanup_after_potential_container_restart: the shell calls it makes.
cleanup_after_potential_container_restart(router_user_found) ==
    IF router_user_found
    THEN <<"get_mysql_router_user_for_unit", "remove_router_from_cluster_metadata",
           "delete_user">>
    ELSE <<"get_mysql_router_user_for_unit">>

\* What the environment decides for one enable(): whether the bootstrap command
\* succeeds, when each listener starts to accept, how long a connect takes.
EnableOutcomes ==
    [bootstrap_ok : BOOLEAN, opens : [{Ports[i] : i \in 1..Len(Ports)} -> ListenerOpensAt],
     connect_seconds : ConnectSeconds]

\* Some attempt of the poll finds every listener accepting.
AttemptsSucceed(outcome) ==
    wait_until_mysql_router_ready(outcome.opens, outcome.connect_seconds).ready

\* The outcome used where no input is read.
QuietOutcome ==
    [bootstrap_ok |-> TRUE, opens |-> [p \in {Ports[i] : i \in 1..Len(Ports)} |-> 1],
     connect_seconds |-> 0]

\* Mutant: the service is enabled before the router is bootstrapped.
enable_flag_before_bootstrap(w, connection_info, outcome) ==
    IF w.enabled
    THEN [w EXCEPT !.calls = <<"enable">>, !.result = "ok", !.poll = NoPoll]
    ELSE LET cleanup == cleanup_after_potential_container_restart(w.router_user)
         IN  IF ~outcome.bootstrap_ok
             THEN [w EXCEPT !.enabled = TRUE,
                            !.router_user = FALSE,
                            !.listeners_confirmed = FALSE,
                            !.calls = <<"enable">> \o cleanup
                                        \o <<"update_mysql_router_service",
                                             "run_mysql_router --bootstrap">>,
                            !.result = "bootstrap_error",
                            !.poll = NoPoll]
             ELSE LET polled == wait_until_mysql_router_ready(outcome.opens,
                                                            outcome.connect_seconds)
                  IN  [w EXCEPT !.enabled = TRUE,
                                !.router_user = TRUE,
                                !.bootstrap_info = connection_info,
                                !.listeners_confirmed = polled.ready,
                                !.directories = BootstrappedDirectories,
                                !.calls = <<"enable">> \o cleanup
                                            \o <<"update_mysql_router_service",
                                                 "run_mysql_router --bootstrap",
                                                 "add_attributes_to_mysql_router_user",
                                                 "wait_until_mysql_router_ready">>,
                                !.result = IF polled.ready THEN "ok" ELSE "not_ready",
                                !.poll = polled]

\* Mutant: a service that is already enabled is bootstrapped again.
enable_always_bootstraps(w, connection_info, outcome) ==
    LET cleanup == cleanup_after_potential_container_restart(w.router_user)
        polled  == wait_until_mysql_router_ready(outcome.opens, outcome.connect_seconds)
    IN  [w EXCEPT !.enabled = TRUE,
                  !.router_user = TRUE,
                  !.bootstrap_info = connection_info,
                  !.listeners_confirmed = polled.ready,
                  !.directories = BootstrappedDirectories,
                  !.calls = <<"enable">> \o cleanup
                              \o <<"run_mysql_router --bootstrap",
                                   "add_attributes_to_mysql_router_user",
                                   "update_mysql_router_service",
                                   "wait_until_mysql_router_ready">>,
                  !.result = IF polled.ready THEN "ok" ELSE "not_ready",
                  !.poll = polled]

\* AuthenticatedWorkload.enable.  w = [enabled, router_user, bootstrap_info,
\* listeners_confirmed, directories, calls, result, poll]: the service flag, whether the
\* backend holds a router user tagged for this unit, the connection information of the
\* last bootstrap, whether both listeners accepted a connection since then, the state of
\* the router's directories; and, of this call, the calls it made, how it returned and
\* what the readiness poll saw.
enable(w, connection_info, outcome) ==
    IF w.enabled
    THEN [w EXCEPT !.calls = <<"enable">>, !.result = "ok", !.poll = NoPoll]
    ELSE LET cleanup == cleanup_after_potential_container_restart(w.router_user)
         IN  IF ~outcome.bootstrap_ok
             THEN [w EXCEPT !.router_user = FALSE,
                            !.listeners_confirmed = FALSE,
                            !.calls = <<"enable">> \o cleanup
                                        \o <<"run_mysql_router --bootstrap">>,
                            !.result = "bootstrap_error",
                            !.poll = NoPoll]
             ELSE LET polled == wait_until_mysql_router_ready(outcome.opens,
                                                            outcome.connect_seconds)
                  IN  [w EXCEPT !.enabled = TRUE,
                                !.router_user = TRUE,
                                !.bootstrap_info = connection_info,
                                !.listeners_confirmed = polled.ready,
                                !.directories = BootstrappedDirectories,
                                !.calls = <<"enable">> \o cleanup
                                            \o <<"run_mysql_router --bootstrap",
                                                 "add_attributes_to_mysql_router_user",
                                                 "update_mysql_router_service",
                                                 "wait_until_mysql_router_ready">>,
                                !.result = IF polled.ready THEN "ok" ELSE "not_ready",
                                !.poll = polled]

\* Mutant: the data directory is left as the router wrote it.
disable_keeping_data_directory(w) ==
    IF ~w.enabled
    THEN [w EXCEPT !.calls = <<"disable">>, !.result = "ok", !.poll = NoPoll]
    ELSE [w EXCEPT !.enabled = FALSE,
                   !.listeners_confirmed = FALSE,
                   !.directories = mkdir(rmtree(@, "router_config_directory"),
                                         "router_config_directory"),
                   !.calls = <<"disable", "update_mysql_router_service",
                               "router_config_directory.rmtree",
                               "router_config_directory.mkdir">>,
                   !.result = "ok",
                   !.poll = NoPoll]

\* Workload.disable
disable(w) ==
    IF ~w.enabled
    THEN [w EXCEPT !.calls = <<"disable">>, !.result = "ok", !.poll = NoPoll]
    ELSE [w EXCEPT !.enabled = FALSE,
                   !.listeners_confirmed = FALSE,
                   !.directories =
                        mkdir(rmtree(mkdir(rmtree(@, "router_config_directory"),
                                           "router_config_directory"),
                                     "router_data_directory"),
                              "router_data_directory"),
                   !.calls = <<"disable", "update_mysql_router_service",
                               "router_config_directory.rmtree",
                               "router_config_directory.mkdir",
                               "router_data_directory.rmtree",
                               "router_data_directory.mkdir">>,
                   !.result = "ok",
                   !.poll = NoPoll]

----------------------------------------------------------------------------
(* abstract_charm.py *)

\* Mutant: the provides endpoint is asked first.
app_status_candidates_provides_first(requires_status, prov) ==
    SelectSeq(<<get_status(prov), requires_status>>, LAMBDA s: s # None)

\* The `statuses` list _determine_app_status builds, requires endpoint first.
app_status_candidates(requires_status, prov) ==
    SelectSeq(<<requires_status, get_status(prov)>>, LAMBDA s: s # None)

determine_app_status(requires_status, prov) ==
    prioritize_statuses(app_status_candidates(requires_status, prov))

determine_unit_status(status) == prioritize_statuses(<<status>>)

----------------------------------------------------------------------------
(* main.py: one lifecycle event *)

RaisedInReconcile == "shell_error"

\* charm.event: the kinds of event that reach the reconcile branch, and the two that
\* do not.
ReconcileEvents == {"start", "update-status", "leader-elected", "relation-created"}

EventKinds == {"install", "remove"} \cup ReconcileEvents

\* Mutant: the start event is handled like install.
is_install_event_or_start(event) == event \in {"install", "start"}

\* isinstance(charm.event, charm.InstallEvent)
is_install_event(event) == event = "install"

\* isinstance(charm.event, charm.RemoveEvent)
is_remove_event(event) == event = "remove"

\* Mutant: every unit reconciles the users.
leader_operation_on_every_unit(leader, relation_breaking, authenticated, ready) ==
    IF relation_breaking THEN "delete_all_databags"
    ELSE IF authenticated /\ ready THEN "reconcile_users"
    ELSE "none"

\* main.py lines 34 to 42: what the leader does to the downstream relations.
leader_operation(leader, relation_breaking, authenticated, ready) ==
    IF ~leader THEN "none"
    ELSE IF relation_breaking THEN "delete_all_databags"
    ELSE IF authenticated /\ ready THEN "reconcile_users"
    ELSE "none"

\* Mutant: the workload is disabled whenever it is not enabled.
enable_or_disable_without_ready(w, authenticated, ready, connection_info, outcome) ==
    IF authenticated /\ ready THEN enable(w, connection_info, outcome)
    ELSE disable(w)

\* main.py lines 43 to 46: enable() for an authenticated workload in a ready container,
\* disable() for another workload in a ready container, neither otherwise.
enable_or_disable(w, authenticated, ready, connection_info, outcome) ==
    IF authenticated /\ ready THEN enable(w, connection_info, outcome)
    ELSE IF ready THEN disable(w)
    ELSE w

\* The state one event reads and writes.
Current ==
    [is_leader |-> is_leader, container_ready |-> container_ready,
     mysql_router_service_enabled |-> mysql_router_service_enabled,
     router_user |-> router_user, bootstrap_info |-> bootstrap_info,
     listeners_confirmed |-> listeners_confirmed, directories |-> directories,
     requires |-> requires,
     provides |-> provides, users |-> users, resolved |-> resolved, statuses |-> statuses,
     app_status |-> app_status, unit_status |-> unit_status, operation |-> operation,
     shell_calls |-> shell_calls, event_result |-> event_result,
     workload_calls |-> workload_calls, poll |-> poll, steps |-> steps]

\* The import of relations.database_requires: the state it leaves (the AssertionError
\* for more than one relation ends the event here).
Imported ==
    LET info == ConnectionInformation(requires, is_leader)
    IN  IF info.assertion
        THEN [Current EXCEPT !.event_result = "assertion_error",
                             !.operation = "none",
                             !.shell_calls = <<>>,
                             !.workload_calls = <<>>,
                             !.poll = NoPoll,
                             !.steps = <<"relations.database_requires">>]
        ELSE [Current EXCEPT
                !.requires = info.relations,
                !.resolved = [connection_info |-> info.connection_info,
                              relation_breaking |-> info.relation_breaking,
                              status |-> info.status],
                !.operation = "none",
                !.shell_calls = <<>>,
                !.workload_calls = <<>>,
                !.poll = NoPoll,
                !.steps = <<"relations.database_requires">>]

\* The else branch of main.py (lines 26 to 56): the state it leaves.
reconcile(fail_at, enable_outcome, router_in_cluster_set) ==
    LET info          == ConnectionInformation(requires, is_leader)
        authenticated == info.connection_info # None
        branch        == leader_operation(is_leader, info.relation_breaking, authenticated,
                                          container_ready)
        st            == IF branch = "reconcile_users"
                         THEN reconcile_users(provides, users,
                                              info.connection_info.username, fail_at)
                         ELSE [provides |-> IF branch = "delete_all_databags"
                                            THEN delete_all_databags(provides)
                                            ELSE provides,
                               users |-> users, calls |-> <<>>, raised |-> FALSE]
        workload      == [enabled |-> mysql_router_service_enabled,
                          router_user |-> router_user,
                          bootstrap_info |-> bootstrap_info,
                          listeners_confirmed |-> listeners_confirmed,
                          directories |-> directories,
                          calls |-> <<>>, result |-> "ok", poll |-> NoPoll]
        switched      == enable_or_disable(workload, authenticated, container_ready,
                                           info.connection_info, enable_outcome)
        reconciled    == [Imported EXCEPT
                            !.operation = branch,
                            !.provides = st.provides,
                            !.users = st.users,
                            !.shell_calls = st.calls,
                            !.steps = IF branch = "none" THEN @ ELSE Append(@, branch)]
        enabled       == [reconciled EXCEPT
                            !.mysql_router_service_enabled = switched.enabled,
                            !.router_user = switched.router_user,
                            !.bootstrap_info = switched.bootstrap_info,
                            !.listeners_confirmed = switched.listeners_confirmed,
                            !.directories = switched.directories,
                            !.workload_calls = switched.calls,
                            !.poll = switched.poll,
                            !.event_result = switched.result,
                            !.steps = IF switched.calls = <<>> THEN @
                                      ELSE Append(@, switched.calls[1])]
    IN  IF st.raised
        THEN [reconciled EXCEPT !.event_result = RaisedInReconcile]
        ELSE IF switched.result = "ok"
        THEN [enabled EXCEPT
                !.statuses = IF is_leader
                             THEN app_status_candidates(info.status, st.provides)
                             ELSE @,
                !.app_status = IF is_leader
                               THEN determine_app_status(info.status, st.provides)
                               ELSE @,
                !.unit_status = determine_unit_status(
                                    workload_status(authenticated, container_ready,
                                                    router_in_cluster_set)),
                !.steps = @ \o (IF is_leader THEN <<"charm.app_status">> ELSE <<>>)
                            \o <<"charm.unit_status">>]
        ELSE [enabled EXCEPT
                !.unit_status = IF switched.poll.attempts > 0
                                THEN WaitingStatus("MySQL Router starting")
                                ELSE @]

\* The dispatch of main.py on charm.event (lines 21 to 26), `reconciled` being what the
\* else branch leaves.
dispatch(event, reconciled) ==
    IF Imported.event_result = "assertion_error" THEN Imported
    ELSE IF is_install_event(event)
    THEN [Imported EXCEPT !.event_result = "installed", !.steps = Append(@, "snap.install")]
    ELSE IF is_remove_event(event)
    THEN [Imported EXCEPT !.event_result = "removed", !.steps = Append(@, "snap.uninstall")]
    ELSE reconciled

\* The import of relations.database_requires and then main.py, run for one event: the
\* state they leave.
main(event, fail_at, enable_outcome, router_in_cluster_set) ==
    dispatch(event, reconcile(fail_at, enable_outcome, router_in_cluster_set))

HandleEvent(event, reconciled) ==
    \E after \in {dispatch(event, reconciled)} :
        /\ is_leader' = after.is_leader
        /\ container_ready' = after.container_ready
        /\ mysql_router_service_enabled' = after.mysql_router_service_enabled
        /\ router_user' = after.router_user
        /\ bootstrap_info' = after.bootstrap_info
        /\ listeners_confirmed' = after.listeners_confirmed
        /\ directories' = after.directories
        /\ requires' = after.requires
        /\ provides' = after.provides
        /\ users' = after.users
        /\ resolved' = after.resolved
        /\ statuses' = after.statuses
        /\ app_status' = after.app_status
        /\ unit_status' = after.unit_status
        /\ operation' = after.operation
        /\ shell_calls' = after.shell_calls
        /\ event_result' = after.event_result
        /\ workload_calls' = after.workload_calls
        /\ poll' = after.poll
        /\ steps' = after.steps
        /\ UNCHANGED changes

\* The inputs of an event that the event reads: a failing shell call only among the
\* calls the pass issues, an enable outcome only when enable() bootstraps (and the
\* listeners only when the bootstrap succeeds), and the ClusterSet membership only when
\* the authenticated workload's status queries it.
EventInputs ==
    LET info          == ConnectionInformation(requires, is_leader)
        authenticated == info.connection_info # None
        reconciling   == /\ is_leader /\ ~info.relation_breaking
                         /\ authenticated /\ container_ready
        ncalls        == IF reconciling
                         THEN Len(reconcile_users(provides, users,
                                                  info.connection_info.username, 0).calls)
                         ELSE 0
        bootstraps    == authenticated /\ container_ready /\ ~mysql_router_service_enabled
        starts        == {e \in EnableOutcomes : e.bootstrap_ok}
        memberships   == IF authenticated /\ container_ready THEN BOOLEAN ELSE {TRUE}
    IN  {<<f, QuietOutcome, TRUE>> : f \in 1..ncalls}
            \cup (IF bootstraps
                  THEN {<<0, [QuietOutcome EXCEPT !.bootstrap_ok = FALSE], TRUE>>}
                         \cup {<<0, e, TRUE>> : e \in {o \in starts : ~AttemptsSucceed(o)}}
                         \cup ({0} \X {o \in starts : AttemptsSucceed(o)} \X memberships)
                  ELSE {0} \X {QuietOutcome} \X memberships)

\* Juju emits install before the unit is related to anything and remove once every
\* relation is gone; the other events come at any time.
Emitted(event) ==
    LET unrelated == requires = <<>> /\ \A id \in DOMAIN provides : ~provides[id].exists
    IN  CASE event = "install" -> unrelated /\ changes = 0 /\ event_result = "pending"
          [] event = "remove"  -> unrelated /\ changes > 0
          [] OTHER             -> TRUE

\* One event: main.py runs from the top.  The else branch is evaluated once for the
\* kinds of event that take it; an event that does not take it reads no input.
Event ==
    \E input \in EventInputs :
        \E reconciled \in {reconcile(input[1], input[2], input[3])} :
            \E event \in EventKinds :
                /\ Emitted(event)
                /\ event \notin ReconcileEvents => input = <<0, QuietOutcome, TRUE>>
                /\ HandleEvent(event, reconciled)

----------------------------------------------------------------------------
(* The environment: Juju and the related applications *)

\* No event is running: the module globals of database_requires do not exist.
NotResolved == [connection_info |-> None, relation_breaking |-> FALSE, status |-> None]

Changed ==
    /\ changes < MaxChanges
    /\ changes' = changes + 1
    /\ event_result' = "pending"
    /\ operation' = "none"
    /\ shell_calls' = <<>>
    /\ resolved' = NotResolved
    /\ statuses' = <<>>
    /\ workload_calls' = <<>>
    /\ poll' = NoPoll
    /\ steps' = <<>>

ProvidesRelationCreated ==
    \E id \in DOMAIN provides, bag \in ProvidesRemoteBags:
        /\ ~provides[id].exists
        /\ provides' = [provides EXCEPT ![id] = [NoRelation EXCEPT !.exists = TRUE,
                                                                  !.remote_app = bag]]
        /\ Changed
        /\ UNCHANGED <<is_leader, container_ready, mysql_router_service_enabled, requires,
                       users, app_status, unit_status, router_user, bootstrap_info,
                       listeners_confirmed, directories>>

ProvidesRelationChanged ==
    \E id \in DOMAIN provides, bag \in ProvidesRemoteBags:
        /\ provides[id].exists
        /\ bag # provides[id].remote_app
        /\ provides' = [provides EXCEPT ![id].remote_app = bag]
        /\ Changed
        /\ UNCHANGED <<is_leader, container_ready, mysql_router_service_enabled, requires,
                       users, app_status, unit_status, router_user, bootstrap_info,
                       listeners_confirmed, directories>>

ProvidesRelationBreaking ==
    \E id \in DOMAIN provides:
        /\ provides[id].exists
        /\ ~provides[id].breaking
        /\ provides' = [provides EXCEPT ![id].breaking = TRUE]
        /\ Changed
        /\ UNCHANGED <<is_leader, container_ready, mysql_router_service_enabled, requires,
                       users, app_status, unit_status, router_user, bootstrap_info,
                       listeners_confirmed, directories>>

ProvidesRelationRemoved ==
    \E id \in DOMAIN provides:
        /\ provides[id].exists
        /\ provides[id].breaking
        /\ provides' = [provides EXCEPT ![id] = NoRelation]
        /\ Changed
        /\ UNCHANGED <<is_leader, container_ready, mysql_router_service_enabled, requires,
                       users, app_status, unit_status, router_user, bootstrap_info,
                       listeners_confirmed, directories>>

\* A relation beside the first is never read (the assertion fails before): it is
\* created with the empty databag every new relation starts with.
RequiresRelationCreated ==
    \E bag \in IF requires = <<>> THEN RequiresRemoteBags ELSE {EmptyBag} :
        /\ Len(requires) < 2
        /\ requires' = Append(requires, [breaking |-> FALSE, remote_app |-> bag,
                                         my_app |-> EmptyBag])
        /\ Changed
        /\ UNCHANGED <<is_leader, container_ready, mysql_router_service_enabled, provides,
                       users, app_status, unit_status, router_user, bootstrap_info,
                       listeners_confirmed, directories>>

RequiresRelationChanged ==
    \E bag \in RequiresRemoteBags:
        /\ Len(requires) = 1
        /\ bag # requires[1].remote_app
        /\ requires' = [requires EXCEPT ![1].remote_app = bag]
        /\ Changed
        /\ UNCHANGED <<is_leader, container_ready, mysql_router_service_enabled, provides,
                       users, app_status, unit_status, router_user, bootstrap_info,
                       listeners_confirmed, directories>>

RequiresRelationBreaking ==
    /\ Len(requires) = 1
    /\ ~requires[1].breaking
    /\ requires' = [requires EXCEPT ![1].breaking = TRUE]
    /\ Changed
    /\ UNCHANGED <<is_leader, container_ready, mysql_router_service_enabled, provides,
                   users, app_status, unit_status, router_user, bootstrap_info,
                   listeners_confirmed, directories>>

RequiresRelationRemoved ==
    /\ requires # <<>>
    /\ Len(requires) = 2 \/ requires[1].breaking
    /\ requires' = SubSeq(requires, 1, Len(requires) - 1)
    /\ Changed
    /\ UNCHANGED <<is_leader, container_ready, mysql_router_service_enabled, provides,
                   users, app_status, unit_status, router_user, bootstrap_info,
                   listeners_confirmed, directories>>

LeadershipChanged ==
    /\ is_leader' = ~is_leader
    /\ Changed
    /\ UNCHANGED <<container_ready, mysql_router_service_enabled, requires, provides,
                   users, app_status, unit_status, router_user, bootstrap_info,
                   listeners_confirmed, directories>>

ContainerChanged ==
    /\ container_ready' = ~container_ready
    /\ Changed
    /\ UNCHANGED <<is_leader, mysql_router_service_enabled, requires, provides,
                   users, app_status, unit_status, router_user, bootstrap_info,
                   listeners_confirmed, directories>>

----------------------------------------------------------------------------

Init ==
    /\ is_leader \in BOOLEAN
    /\ container_ready = TRUE
    /\ mysql_router_service_enabled = FALSE
    /\ router_user = FALSE
    /\ bootstrap_info = None
    /\ listeners_confirmed = FALSE
    /\ directories = EmptyDirectories
    /\ workload_calls = <<>>
    /\ poll = NoPoll
    /\ steps = <<>>
    /\ requires = <<>>
    /\ provides = [id \in RelationIdSet |-> NoRelation]
    /\ users = {}
    /\ resolved = NotResolved
    /\ statuses = <<>>
    /\ app_status = None
    /\ unit_status = None
    /\ operation = "none"
    /\ shell_calls = <<>>
    /\ event_result = "pending"
    /\ changes = 0

Next ==
    \/ Event
    \/ ProvidesRelationCreated
    \/ ProvidesRelationChanged
    \/ ProvidesRelationBreaking
    \/ ProvidesRelationRemoved
    \/ RequiresRelationCreated
    \/ RequiresRelationChanged
    \/ RequiresRelationBreaking
    \/ RequiresRelationRemoved
    \/ LeadershipChanged
    \/ ContainerChanged

Spec == Init /\ [][Next]_vars

----------------------------------------------------------------------------
(* The status aggregation on its own: every list of candidates *)

StatusCandidates ==
    {BlockedStatus("b1"), BlockedStatus("b2"), WaitingStatus("w1"), WaitingStatus("w2"),
     MaintenanceStatus("m1"), Status("unknown", "u1"), None}

InitStatuses ==
    /\ is_leader = TRUE
    /\ container_ready = TRUE
    /\ mysql_router_service_enabled = FALSE
    /\ router_user = FALSE
    /\ bootstrap_info = None
    /\ listeners_confirmed = FALSE
    /\ directories = EmptyDirectories
    /\ workload_calls = <<>>
    /\ poll = NoPoll
    /\ steps = <<>>
    /\ requires = <<>>
    /\ provides = [id \in RelationIdSet |-> NoRelation]
    /\ users = {}
    /\ resolved = NotResolved
    /\ statuses \in UNION {[1..n -> StatusCandidates] : n \in 0..MaxStatuses}
    /\ app_status = None
    /\ unit_status = None
    /\ operation = "none"
    /\ shell_calls = <<>>
    /\ event_result = "pending"
    /\ changes = 0

PrioritizeStatuses ==
    /\ event_result = "pending"
    /\ app_status' = prioritize_statuses(statuses)
    /\ event_result' = "ok"
    /\ UNCHANGED <<is_leader, container_ready, mysql_router_service_enabled, requires,
                   provides, users, resolved, statuses, unit_status, operation, shell_calls,
                   changes, router_user, bootstrap_info, listeners_confirmed,
                   directories, workload_calls, poll, steps>>

SpecStatuses == InitStatuses /\ [][PrioritizeStatuses]_vars

----------------------------------------------------------------------------
(* The readiness poll on its own: listeners that open at any attempt, or never *)

MaxOpensAt == 8

MaxConnectSeconds == 2

PortSet == {Ports[i] : i \in 1..Len(Ports)}

InitReadiness ==
    /\ is_leader = TRUE
    /\ container_ready = TRUE
    /\ mysql_router_service_enabled = TRUE
    /\ router_user = TRUE
    /\ bootstrap_info = None
    /\ listeners_confirmed = FALSE
    /\ directories = BootstrappedDirectories
    /\ requires = <<>>
    /\ provides = [id \in RelationIdSet |-> NoRelation]
    /\ users = {}
    /\ resolved = NotResolved
    /\ statuses = <<>>
    /\ app_status = None
    /\ unit_status = None
    /\ operation = "none"
    /\ shell_calls = <<>>
    /\ event_result = "pending"
    /\ workload_calls = <<>>
    /\ steps = <<>>
    /\ poll \in {[opens |-> opens, connect_seconds |-> connect_seconds, ready |-> FALSE,
                   attempts |-> 0, waited |-> 0] :
                    opens \in [PortSet -> 0..MaxOpensAt],
                    connect_seconds \in 0..MaxConnectSeconds}
    /\ changes = 0

\* enable() from the point where the service has been enabled: the poll, and how
\* enable() returns.
WaitUntilMysqlRouterReady ==
    /\ event_result = "pending"
    /\ unit_status' = WaitingStatus("MySQL Router starting")
    /\ poll' = wait_until_mysql_router_ready(poll.opens, poll.connect_seconds)
    /\ listeners_confirmed' = poll'.ready
    /\ workload_calls' = <<"wait_until_mysql_router_ready">>
    /\ event_result' = IF poll'.ready THEN "ok" ELSE "not_ready"
    /\ UNCHANGED <<is_leader, container_ready, mysql_router_service_enabled, router_user,
                   bootstrap_info, directories, requires, provides, users, resolved,
                   statuses, app_status, operation, shell_calls, steps, changes>>

SpecReadiness == InitReadiness /\ [][WaitUntilMysqlRouterReady]_vars

----------------------------------------------------------------------------
(* reconcile_users on its own: grants written by earlier events, for another database, *)
(* under another upstream username or with other router endpoints                      *)

DatabaseNames == {"db", "db2"}

GrantRemoteBags == ProvidesRemoteBags \cup {"database" :> d : d \in DatabaseNames}

RouterEndpoints ==
    {<<ReadWriteEndpoint, ReadOnlyEndpoint>>,
     <<"file:///run/mysqlrouter/mysql.sock", "file:///run/mysqlrouter/mysqlro.sock">>}

\* The local databags an earlier event can have left for relation id.
EarlierGrants(id) ==
    {EmptyBag}
        \cup {[GrantBag(d, get_username(u, id), GeneratedPassword)
                    EXCEPT !["endpoints"] = e[1], !["read-only-endpoints"] = e[2]] :
                d \in DatabaseNames, u \in UpstreamUsernames, e \in RouterEndpoints}

GrantRelations(id) ==
    {NoRelation}
        \cup [exists : {TRUE}, breaking : BOOLEAN, remote_app : GrantRemoteBags,
              my_app : EarlierGrants(id)]

InitGrants ==
    /\ is_leader = TRUE
    /\ container_ready = TRUE
    /\ mysql_router_service_enabled = TRUE
    /\ router_user = TRUE
    /\ listeners_confirmed = TRUE
    /\ directories = BootstrappedDirectories
    /\ \E u \in UpstreamUsernames :
            /\ requires = <<[breaking |-> FALSE, remote_app |-> RequiresCompleteBag(u),
                             my_app |-> RequiresLocalBag]>>
            /\ bootstrap_info = [k \in RequiresRemoteKeys |-> RequiresCompleteBag(u)[k]]
    /\ provides \in {prov \in [RelationIdSet -> UNION {GrantRelations(id) : id \in RelationIdSet}] :
                        \A id \in RelationIdSet : prov[id] \in GrantRelations(id)}
    /\ users = {provides[id].my_app["username"] :
                    id \in {i \in RelationIdSet : provides[i].my_app # EmptyBag}}
    /\ resolved = NotResolved
    /\ statuses = <<>>
    /\ app_status = None
    /\ unit_status = None
    /\ operation = "none"
    /\ shell_calls = <<>>
    /\ event_result = "pending"
    /\ workload_calls = <<>>
    /\ poll = NoPoll
    /\ steps = <<>>
    /\ changes = 0

\* One pass of reconcile_users as the leader's event runs it, any one of its backend
\* calls failing or none.
ReconcileUsers ==
    /\ event_result = "pending"
    /\ \E fail_at \in 0..Len(reconcile_users(provides, users,
                                              requires[1].remote_app["username"], 0).calls) :
         \E st \in {reconcile_users(provides, users, requires[1].remote_app["username"],
                                     fail_at)} :
            /\ provides' = st.provides
            /\ users' = st.users
            /\ shell_calls' = st.calls
            /\ event_result' = IF st.raised THEN RaisedInReconcile ELSE "ok"
    /\ operation' = "reconcile_users"
    /\ steps' = <<"reconcile_users">>
    /\ UNCHANGED <<is_leader, container_ready, mysql_router_service_enabled, router_user,
                   bootstrap_info, listeners_confirmed, directories, requires, resolved,
                   statuses, app_status, unit_status, workload_calls, poll, changes>>

SpecGrants == InitGrants /\ [][ReconcileUsers]_vars

----------------------------------------------------------------------------
(* Vocabulary of the properties *)

Exists(id) == provides[id].exists

TearingDown(id) == provides[id].breaking

HasDatabase(id) == "database" \in DOMAIN provides[id].remote_app

RequestsExtraRole(id) == "extra-user-roles" \in DOMAIN provides[id].remote_app

ValidRequest(id) ==
    Exists(id) /\ ~TearingDown(id) /\ HasDatabase(id) /\ ~RequestsExtraRole(id)

HasCompleteGrant(id) == \A k \in GrantKeys : k \in DOMAIN provides[id].my_app

Position(id) == CHOOSE i \in 1..Len(RelationIds) : RelationIds[i] = id

\* The relation of S that is enumerated first.
First(S) == CHOOSE id \in S : \A other \in S : Position(id) <= Position(other)

\* The last step was an event whose reconcile_users returned normally.
ReconcileCompleted == operation = "reconcile_users" /\ event_result # RaisedInReconcile

Created(calls) ==
    {calls[i][2] : i \in {j \in 1..Len(calls) :
                            calls[j][1] = "create_application_database_and_user"}}

----------------------------------------------------------------------------
(* Properties *)

\* C1: after reconcile_users returns without a backend failure, the relations whose
\* local databag holds a complete grant are exactly the relations that are not tearing
\* down and are well-formed.
C1_Fixpoint ==
    ReconcileCompleted =>
        {id \in RelationIdSet : HasCompleteGrant(id)} = {id \in RelationIdSet : ValidRequest(id)}

C1_Witness ==
    /\ ReconcileCompleted
    /\ shell_calls # <<>>
    /\ \E id \in RelationIdSet : ValidRequest(id) /\ HasCompleteGrant(id)
    /\ \E id \in RelationIdSet : Exists(id) /\ ~ValidRequest(id)

\* C2: a reconcile_users pass that directly follows a completed pass, with no change in
\* between, leaves every local databag as it was and issues no create and no delete call.
C2_Idempotent ==
    [][(ReconcileCompleted /\ operation' = "reconcile_users")
        => (provides' = provides /\ shell_calls' = <<>>)]_vars

C2_Witness ==
    /\ operation = "reconcile_users"
    /\ event_result = "ok"
    /\ shell_calls = <<>>
    /\ \E id \in RelationIdSet : HasCompleteGrant(id)

\* C3: a grant written in a step carries the username "<upstream username>-<relation id>",
\* the upstream username being the one in the backend-database databag at that event,
\* and the usernames of the grants that exist together are pairwise distinct.
C3_Username ==
    [][/\ \A id \in RelationIdSet :
            (/\ "username" \in DOMAIN provides'[id].my_app
             /\ provides'[id].my_app # provides[id].my_app)
            => /\ Len(requires) = 1
               /\ "username" \in DOMAIN requires[1].remote_app
               /\ provides'[id].my_app["username"]
                    = requires[1].remote_app["username"] \o "-" \o ToString(id)
       /\ \A i, j \in RelationIdSet :
            (/\ i # j
             /\ "username" \in DOMAIN provides'[i].my_app
             /\ "username" \in DOMAIN provides'[j].my_app)
            => provides'[i].my_app["username"] # provides'[j].my_app["username"]]_vars

C3_Witness ==
    /\ ReconcileCompleted
    /\ Created(shell_calls) # {}
    /\ \E i, j \in RelationIdSet :
        /\ i # j
        /\ HasCompleteGrant(i)
        /\ HasCompleteGrant(j)
        /\ provides[i].my_app["username"] = "a1-2"
        /\ provides[j].my_app["username"] = "a-12"

\* C4: in every reachable state the local databag of a downstream relation holds none
\* of the five grant fields or all five.
C4_CompleteOrAbsent ==
    \A id \in RelationIdSet :
        \/ DOMAIN provides[id].my_app \cap GrantKeys = {}
        \/ GrantKeys \subseteq DOMAIN provides[id].my_app

C4_Witness ==
    /\ event_result = RaisedInReconcile
    /\ Created(shell_calls) # {}
    /\ \E id \in RelationIdSet : HasCompleteGrant(id)
    /\ \E id \in RelationIdSet : ValidRequest(id) /\ provides[id].my_app = EmptyBag

C6_AsStated ==
    /\ (\A id \in RelationIdSet : Exists(id) => TearingDown(id))
            => get_status(provides) = BlockedStatus("Missing relation: database")
    /\ (\E id \in RelationIdSet : ValidRequest(id)) => get_status(provides) = None

\* C6: the status is Blocked("Missing relation: database") when no downstream relation
\* exists or every one is tearing down, and there is no status when at least one relation
\* is a valid request and every relation that is not tearing down is one.
C6_StatusForAbsence ==
    /\ (\A id \in RelationIdSet : Exists(id) => TearingDown(id))
            => get_status(provides) = BlockedStatus("Missing relation: database")
    /\ (/\ \E id \in RelationIdSet : ValidRequest(id)
        /\ \A id \in RelationIdSet : Exists(id) /\ ~TearingDown(id) => ValidRequest(id))
            => get_status(provides) = None

\* Every downstream relation is tearing down, and the leader reported the absence.
C6_Witness ==
    /\ event_result = "ok"
    /\ is_leader
    /\ \E id \in RelationIdSet : Exists(id)
    /\ \A id \in RelationIdSet : Exists(id) => TearingDown(id)
    /\ InSeq(BlockedStatus("Missing relation: database"), statuses)

TypesIn(candidates) == {candidates[i].type : i \in 1..Len(candidates)}

FirstOf(candidates, types) ==
    candidates[CHOOSE i \in 1..Len(candidates) :
                    /\ candidates[i].type \in types
                    /\ \A j \in 1..(i - 1) : candidates[j].type \notin types]

UpstreamComplete ==
    /\ Len(requires) = 1
    /\ \A k \in {"endpoints", "username", "password"} : k \in DOMAIN requires[1].remote_app

UpstreamWaiting ==
    WaitingStatus("Waiting for mysql app on backend-database endpoint")

UpstreamLacksKey ==
    /\ Len(requires) = 1
    /\ \E k \in {"endpoints", "username", "password"} : k \notin DOMAIN requires[1].remote_app

NoProvisioning ==
    /\ Created(shell_calls') = {}
    /\ users' \subseteq users
    /\ \A id \in RelationIdSet :
            provides[id].my_app = EmptyBag => provides'[id].my_app = EmptyBag

\* C9 as stated: in an event in which the single upstream relation lacks `endpoints`,
\* `username` or `password`, the resolver yields no connection info and the status
\* Waiting("Waiting for <remote app> app on backend-database endpoint"), no backend user is
\* created and every empty downstream local databag stays empty.
C9_AsStated ==
    [][(UpstreamLacksKey /\ event_result' # "pending")
        => /\ resolved'.connection_info = None
           /\ resolved'.status = UpstreamWaiting
           /\ NoProvisioning]_vars

\* C9: as stated, for a single upstream relation that is not tearing down.
C9_IncompleteUpstream ==
    [][(UpstreamLacksKey /\ ~requires[1].breaking /\ event_result' # "pending")
        => /\ resolved'.connection_info = None
           /\ resolved'.status = UpstreamWaiting
           /\ NoProvisioning]_vars

\* The upstream databag lacks only the password, a valid request waits with an empty
\* databag, and the leader's event has run.
C9_Witness ==
    /\ event_result = "ok"
    /\ is_leader
    /\ container_ready
    /\ Len(requires) = 1
    /\ ~requires[1].breaking
    /\ DOMAIN requires[1].remote_app = {"endpoints", "username"}
    /\ resolved.status = UpstreamWaiting
    /\ app_status = UpstreamWaiting
    /\ \E id \in RelationIdSet : ValidRequest(id) /\ provides[id].my_app = EmptyBag

\* C10: after a reconcile_users pass that returns, every valid relation holds a complete
\* grant and the local databag of every relation that is incomplete, requests an extra
\* role or is tearing down is empty.
C10_Isolation ==
    ReconcileCompleted =>
        \A id \in RelationIdSet :
            /\ ValidRequest(id) => HasCompleteGrant(id)
            /\ (Exists(id) /\ ~ValidRequest(id)) => provides[id].my_app = EmptyBag

\* The disqualified relation is enumerated before the valid one, whose grant this pass
\* created.
C10_Witness ==
    /\ ReconcileCompleted
    /\ \E i, j \in RelationIdSet :
        /\ Position(i) < Position(j)
        /\ Exists(i) /\ ~ValidRequest(i)
        /\ ValidRequest(j) /\ HasCompleteGrant(j)
        /\ provides[j].my_app["username"] \in Created(shell_calls)

\* A step that is a lifecycle event which upstream resolution did not abort.
EventHandled == event_result' \notin {"pending", "assertion_error", "installed", "removed"}

UpstreamTearingDown == Len(requires) = 1 /\ requires[1].breaking

\* C11: in an event handled by the leader while the upstream relation is tearing down,
\* delete_all_databags runs instead of reconcile_users; afterwards every downstream local
\* databag is empty, no create and no delete call was issued, and the backend users are
\* as they were.
C11_UpstreamBreaking ==
    [][(EventHandled /\ is_leader /\ UpstreamTearingDown)
        => /\ operation' = "delete_all_databags"
           /\ \A id \in RelationIdSet : provides'[id].my_app = EmptyBag
           /\ shell_calls' = <<>>
           /\ users' = users]_vars

\* The wipe has cleared the grants of two relations that are still valid requests; both
\* backend users are still there.
C11_Witness ==
    /\ operation = "delete_all_databags"
    /\ shell_calls = <<>>
    /\ UpstreamTearingDown
    /\ \A id \in RelationIdSet :
        /\ ValidRequest(id)
        /\ provides[id].my_app = EmptyBag
        /\ {get_username(u, id) : u \in UpstreamUsernames} \cap users # {}

\* The delete_user calls in `calls` that name the user of relation id, the shell being
\* connected as shell_username.
DeleteCalls(calls, shell_username, id) ==
    {i \in 1..Len(calls) : calls[i] = <<"delete_user", get_username(shell_username, id)>>}

\* C12: in every event, a relation for which delete_user was called on the backend has an
\* empty local databag when the event ends, also when that call failed and ended the
\* pass; and in every state a databag that holds a complete grant names a backend user
\* that exists.
C12_SafeDeletion ==
    [][EventHandled =>
        /\ \A id \in RelationIdSet :
                (/\ operation' = "reconcile_users"
                 /\ DeleteCalls(shell_calls', resolved'.connection_info.username, id) # {})
                => provides'[id].my_app = EmptyBag
        /\ \A id \in RelationIdSet :
                HasCompleteGrant(id)' => provides'[id].my_app["username"] \in users']_vars

\* The backend refused the delete_user call for a relation that held a grant: the pass
\* was aborted, the user still exists and the databag is already empty.
C12_Witness ==
    /\ event_result = RaisedInReconcile
    /\ \E id \in RelationIdSet :
        /\ Exists(id)
        /\ ~ValidRequest(id)
        /\ provides[id].my_app = EmptyBag
        /\ shell_calls[Len(shell_calls)]
                = <<"delete_user", get_username(resolved.connection_info.username, id)>>
        /\ get_username(resolved.connection_info.username, id) \in users

\* C13: the poll ends after at most StopAfterDelay \div WaitFixed + 1 attempts.  If no
\* attempt finds both listeners accepting, enable() ends with NotReady, once StopAfterDelay
\* seconds have passed and less than one retry interval (and one connect) later; it
\* returns normally only after an attempt at which both ports 6446 and 6447 accept, every
\* earlier attempt having failed WaitFixed seconds (and one connect) apart.
C13_ReadinessBound ==
    event_result # "pending" =>
        /\ poll.attempts \in 1..(StopAfterDelay \div WaitFixed + 1)
        /\ poll.waited = poll.attempts * poll.connect_seconds + (poll.attempts - 1) * WaitFixed
        /\ event_result = "not_ready" <=>
                \A attempt \in 1..poll.attempts :
                    \E port \in {6446, 6447} : ~Accepts(poll.opens, port, attempt)
        /\ event_result = "not_ready" =>
                /\ poll.waited >= StopAfterDelay
                /\ poll.waited < StopAfterDelay + WaitFixed + poll.connect_seconds
                /\ ~listeners_confirmed
        /\ event_result = "ok" =>
                /\ \A port \in {6446, 6447} : Accepts(poll.opens, port, poll.attempts)
                /\ \A attempt \in 1..(poll.attempts - 1) :
                        \E port \in {6446, 6447} : ~Accepts(poll.opens, port, attempt)
                /\ poll.waited < StopAfterDelay + WaitFixed + poll.connect_seconds

\* One listener never opens: NotReady after seven attempts and thirty seconds.
C13_Witness ==
    /\ event_result = "not_ready"
    /\ poll.opens[6446] = 1
    /\ poll.opens[6447] = 0
    /\ poll.connect_seconds = 0
    /\ poll.attempts = 7
    /\ poll.waited = 30

\* What the claim calls the output state: the application status and the local databag
\* of every relation.
Output(after) ==
    [app_status |-> after.app_status,
     database |-> [id \in RelationIdSet |-> after.provides[id].my_app],
     backend_database |-> [i \in 1..Len(after.requires) |-> after.requires[i].my_app]]

\* C14: in every reachable state and for every outcome of the backend and of the
\* workload, the application status and the local databags left by handling a start,
\* an update-status, a leader-elected or a relation-created event are the same.
\* (main(event, ...) is dispatch(event, reconcile(...)): the else branch is evaluated once
\* for the four events.)
C14_EventIndependence ==
    \A input \in EventInputs :
        \A reconciled \in {reconcile(input[1], input[2], input[3])} :
            \A event \in ReconcileEvents :
                Output(dispatch(event, reconciled))
                    = Output(dispatch("update-status", reconciled))

\* A state in which the leader's event has work to do: a start event, like a
\* relation-created event, writes a grant and sets the application status to Active.
C14_Witness ==
    /\ is_leader
    /\ event_result = "pending"
    /\ app_status # ActiveStatus
    /\ \E id \in RelationIdSet :
        /\ ValidRequest(id)
        /\ provides[id].my_app = EmptyBag
        /\ \A event \in {"start", "relation-created"} :
                LET after == main(event, 0, QuietOutcome, TRUE)
                IN  /\ after.app_status = ActiveStatus
                    /\ GrantKeys \subseteq DOMAIN after.provides[id].my_app

\* C15: an event that finds more than one backend-database relation ends with the
\* AssertionError of the resolver: no databag is written, no backend user is created or
\* deleted, the workload is neither enabled nor disabled, and neither the resolver's
\* status nor the application or unit status is set.
C15_SingleUpstream ==
    [][(Len(requires) > 1 /\ event_result' # "pending")
        => /\ event_result' = "assertion_error"
           /\ requires' = requires
           /\ provides' = provides
           /\ users' = users
           /\ shell_calls' = <<>>
           /\ workload_calls' = <<>>
           /\ mysql_router_service_enabled' = mysql_router_service_enabled
           /\ resolved' = resolved
           /\ app_status' = app_status
           /\ unit_status' = unit_status]_vars

\* The leader's event was aborted although the first upstream relation is complete, a
\* valid request waits for its grant and the service is still enabled.
C15_Witness ==
    /\ event_result = "assertion_error"
    /\ is_leader
    /\ container_ready
    /\ Len(requires) = 2
    /\ \A k \in RequiresRemoteKeys : k \in DOMAIN requires[1].remote_app
    /\ requires[2].my_app = EmptyBag
    /\ mysql_router_service_enabled
    /\ \E id \in RelationIdSet : ValidRequest(id) /\ provides[id].my_app = EmptyBag

\* The last step was an event in which the resolver ran to its end.
Resolved == event_result \notin {"pending", "assertion_error"}

\* C16 as stated: when the single upstream relation is tearing down, resolution yields no
\* connection information and sets the relation-breaking flag, and the status it reports
\* is a Waiting status.
C16_AsStated ==
    (Resolved /\ UpstreamTearingDown) =>
        /\ resolved.connection_info = None
        /\ resolved.relation_breaking
        /\ resolved.status.type = "waiting"

\* C16: when the single upstream relation is tearing down, resolution yields no
\* connection information and sets the relation-breaking flag, which it does not set when
\* there is no upstream relation; the status it reports is
\* Blocked("Missing relation: backend-database"), as for a missing relation, and that is
\* the application status the leader sets.
C16_UpstreamBreaking ==
    /\ (Resolved /\ UpstreamTearingDown) =>
            /\ resolved.connection_info = None
            /\ resolved.relation_breaking
            /\ resolved.status = BlockedStatus("Missing relation: backend-database")
            /\ (is_leader /\ event_result = "ok") => app_status = resolved.status
    /\ (Resolved /\ requires = <<>>) =>
            /\ resolved.connection_info = None
            /\ ~resolved.relation_breaking
            /\ resolved.status = BlockedStatus("Missing relation: backend-database")

\* The upstream relation is tearing down with a complete remote databag, and the
\* leader has reported it.
C16_Witness ==
    /\ event_result = "ok"
    /\ is_leader
    /\ UpstreamTearingDown
    /\ UpstreamComplete
    /\ resolved.relation_breaking
    /\ app_status = BlockedStatus("Missing relation: backend-database")

RequestWritten(relation) ==
    /\ "database" \in DOMAIN relation.my_app
    /\ relation.my_app["database"] = "mysql_innodb_cluster_metadata"
    /\ "extra-user-roles" \in DOMAIN relation.my_app
    /\ relation.my_app["extra-user-roles"] = "mysqlrouter"

\* C17 as stated: an event writes `database` and `extra-user-roles` into the local databag
\* of the upstream relation when resolution succeeds on the leader, and leaves the upstream
\* relation as it was on every failure outcome and on every non-leader unit.
C17_AsStated ==
    [][event_result' # "pending" =>
        IF resolved'.connection_info # None /\ is_leader
        THEN RequestWritten(requires'[1])
        ELSE requires' = requires]_vars

\* C17: an event of the leader that finds exactly one upstream relation leaves
\* database = "mysql_innodb_cluster_metadata" and extra-user-roles = "mysqlrouter" in its
\* local databag, whether resolution succeeds or finds the relation tearing down or
\* incomplete, and changes nothing else of it; with no upstream relation, with more than
\* one, and on a non-leader unit, the upstream relations are left as they were; an event
\* that finds the two values already written leaves them.
C17_ResolverWrite ==
    [][event_result' # "pending" =>
        IF Len(requires) = 1 /\ is_leader
        THEN /\ Len(requires') = 1
             /\ RequestWritten(requires'[1])
             /\ DOMAIN requires'[1].my_app = {"database", "extra-user-roles"}
             /\ requires'[1].remote_app = requires[1].remote_app
             /\ requires'[1].breaking = requires[1].breaking
             /\ RequestWritten(requires[1]) => requires' = requires
        ELSE requires' = requires]_vars

\* The leader has written its request although the upstream databag is still empty.
C17_Witness ==
    /\ event_result = "ok"
    /\ is_leader
    /\ Len(requires) = 1
    /\ ~requires[1].breaking
    /\ requires[1].remote_app = EmptyBag
    /\ RequestWritten(requires[1])
    /\ resolved.status = UpstreamWaiting

\* The step is an event in which enable() was called.
EnableCalled == workload_calls' # <<>> /\ workload_calls'[1] = "enable"

\* C18: enable() called while the service is enabled makes no call at all (no cleanup
\* lookup, no bootstrap, no tagging, no service update, no readiness poll) and returns
\* normally, leaving the service flag, the router user on the backend and the record of the
\* last bootstrap as they were, whatever the connection information of the event.
C18_EnableNoOp ==
    [][(EnableCalled /\ mysql_router_service_enabled)
        => /\ workload_calls' = <<"enable">>
           /\ poll' = NoPoll
           /\ event_result' = "ok"
           /\ mysql_router_service_enabled'
           /\ router_user' = router_user
           /\ bootstrap_info' = bootstrap_info
           /\ listeners_confirmed' = listeners_confirmed]_vars

\* enable() was a no-op although the upstream username is not the one the router was
\* bootstrapped with.
C18_Witness ==
    /\ event_result = "ok"
    /\ workload_calls = <<"enable">>
    /\ mysql_router_service_enabled
    /\ bootstrap_info # None
    /\ resolved.connection_info # None
    /\ resolved.connection_info.username # bootstrap_info.username

\* C19: enable() called while the service is disabled looks up the router user of this
\* unit and, only if there is one, removes the router from the cluster metadata and then
\* deletes that user; then it bootstraps.  If the bootstrap fails, nothing follows: the
\* service flag stays false and no poll is made.  Otherwise it tags the user, then enables
\* the service, then polls for readiness, and the flag is true whatever the poll finds.
C19_EnableOrder ==
    [][(EnableCalled /\ ~mysql_router_service_enabled)
        => LET cleanup == IF router_user
                          THEN <<"get_mysql_router_user_for_unit",
                                 "remove_router_from_cluster_metadata", "delete_user">>
                          ELSE <<"get_mysql_router_user_for_unit">>
           IN  IF event_result' = "bootstrap_error"
               THEN /\ workload_calls'
                        = <<"enable">> \o cleanup \o <<"run_mysql_router --bootstrap">>
                    /\ ~mysql_router_service_enabled'
                    /\ ~router_user'
                    /\ poll' = NoPoll
               ELSE /\ workload_calls'
                        = <<"enable">> \o cleanup
                            \o <<"run_mysql_router --bootstrap",
                                 "add_attributes_to_mysql_router_user",
                                 "update_mysql_router_service",
                                 "wait_until_mysql_router_ready">>
                    /\ mysql_router_service_enabled'
                    /\ router_user'
                    /\ poll'.attempts > 0
                    /\ event_result' = IF poll'.ready THEN "ok" ELSE "not_ready"]_vars

\* The service had been enabled and disabled before: the stale registration was cleaned
\* up, then the bootstrap failed.
C19_Witness ==
    /\ event_result = "bootstrap_error"
    /\ ~mysql_router_service_enabled
    /\ ~router_user
    /\ bootstrap_info # None
    /\ workload_calls = <<"enable", "get_mysql_router_user_for_unit",
                          "remove_router_from_cluster_metadata", "delete_user",
                          "run_mysql_router --bootstrap">>

\* C20: whenever an event's enable() returns normally, both listeners have accepted a
\* connection since the router was last bootstrapped.
C20_AsStated ==
    (event_result = "ok" /\ workload_calls # <<>> /\ workload_calls[1] = "enable")
        => listeners_confirmed

\* The step is an event in which disable() was called.
DisableCalled == workload_calls' # <<>> /\ workload_calls'[1] = "disable"

\* C21: disable() called while the service flag is false updates no service and touches
\* no directory.  Called while the flag is true, it first disables the service, then
\* removes and recreates the configuration directory, then removes and recreates the data
\* directory; afterwards the flag is false and both directories exist and are empty.
C21_Disable ==
    [][DisableCalled =>
        IF ~mysql_router_service_enabled
        THEN /\ workload_calls' = <<"disable">>
             /\ ~mysql_router_service_enabled'
             /\ directories' = directories
        ELSE /\ workload_calls' = <<"disable", "update_mysql_router_service",
                                    "router_config_directory.rmtree",
                                    "router_config_directory.mkdir",
                                    "router_data_directory.rmtree",
                                    "router_data_directory.mkdir">>
             /\ ~mysql_router_service_enabled'
             /\ \A d \in {"router_config_directory", "router_data_directory"} :
                    directories'[d] = "empty"]_vars

\* The router had been bootstrapped, so both directories held its files; the upstream
\* credentials went away and disable() has wiped them.
C21_Witness ==
    /\ event_result = "ok"
    /\ Len(workload_calls) = 6
    /\ workload_calls[1] = "disable"
    /\ bootstrap_info # None
    /\ ~mysql_router_service_enabled
    /\ directories = [d \in {"router_config_directory", "router_data_directory"} |-> "empty"]

\* C22 as stated: an event handled while the service is enabled, in which there is no
\* connection information or the container is not ready, leaves the service disabled.
C22_AsStated ==
    [][(EventHandled /\ mysql_router_service_enabled
            /\ (resolved'.connection_info = None \/ ~container_ready))
        => ~mysql_router_service_enabled']_vars

\* C22: an event handled while the service is enabled and the container is ready, in
\* which there is no connection information (upstream missing, tearing down or
\* incomplete), calls disable() and leaves the service disabled; while the container is
\* not ready the event calls neither enable() nor disable() and the service flag stays
\* as it was; with connection information and a ready container the service stays
\* enabled.
C22_Transition ==
    [][(EventHandled /\ mysql_router_service_enabled)
        => IF ~container_ready
           THEN /\ workload_calls' = <<>>
                /\ mysql_router_service_enabled'
                /\ directories' = directories
           ELSE IF resolved'.connection_info = None
           THEN /\ workload_calls'[1] = "disable"
                /\ Len(workload_calls') > 1
                /\ ~mysql_router_service_enabled'
           ELSE mysql_router_service_enabled']_vars

\* The upstream databag lost a key while the router was running: the event has
\* disabled the service.
C22_Witness ==
    /\ event_result = "ok"
    /\ container_ready
    /\ Len(requires) = 1
    /\ ~requires[1].breaking
    /\ resolved.status = UpstreamWaiting
    /\ bootstrap_info # None
    /\ ~mysql_router_service_enabled
    /\ workload_calls # <<>>
    /\ workload_calls[1] = "disable"
    /\ Len(workload_calls) > 1

RouterRemoved ==
    BlockedStatus("Router was manually removed from MySQL ClusterSet. Remove & re-deploy unit")

\* C23 as stated, its first part: after an event handled while the container is not
\* ready, the unit status is a Waiting status.
C23_AsStated ==
    [][(EventHandled /\ event_result' = "ok" /\ ~container_ready)
        => unit_status'.type = "waiting"]_vars

\* C23: the workload reports MaintenanceStatus("Waiting for container") if the container
\* is not ready, whatever the cluster membership; otherwise an authenticated workload
\* reports the Blocked status naming the manual removal if the router is absent from the
\* ClusterSet, and nothing is reported in any other case.  An event that ends normally
\* sets the unit status accordingly (Active when nothing is reported), and an event that
\* finds the router removed while the service is enabled does not bootstrap again.
C23_WorkloadStatus ==
    [][(EventHandled /\ event_result' = "ok")
        => /\ \A authenticated, member \in BOOLEAN :
                /\ workload_status(authenticated, FALSE, member)
                        = MaintenanceStatus("Waiting for container")
                /\ workload_status(authenticated, TRUE, member)
                        = IF authenticated /\ ~member THEN RouterRemoved ELSE None
           /\ ~container_ready => unit_status' = MaintenanceStatus("Waiting for container")
           /\ (container_ready /\ resolved'.connection_info = None)
                    => unit_status' = ActiveStatus
           /\ (container_ready /\ resolved'.connection_info # None)
                    => unit_status' \in {ActiveStatus, RouterRemoved}
           /\ (mysql_router_service_enabled /\ unit_status' = RouterRemoved)
                    => /\ workload_calls' = <<"enable">>
                       /\ mysql_router_service_enabled'
                       /\ bootstrap_info' = bootstrap_info]_vars

\* The router was removed from the ClusterSet while the service was enabled: the unit
\* is blocked, and enable() did nothing.
C23_Witness ==
    /\ event_result = "ok"
    /\ container_ready
    /\ resolved.connection_info # None
    /\ mysql_router_service_enabled
    /\ listeners_confirmed
    /\ workload_calls = <<"enable">>
    /\ unit_status = RouterRemoved

\* The last step was an event whose reconcile_users pass was ended by a failing
\* backend call.
PassAborted == operation = "reconcile_users" /\ event_result = RaisedInReconcile

\* C24: a reconcile_users pass that directly follows an aborted pass, with no change in
\* between and no failure of its own, issues again the call that had failed; after it the
\* relations that hold a grant are the valid requests, and the backend holds no user for
\* a relation that is not one.
C24_AsStated ==
    [][(PassAborted /\ operation' = "reconcile_users" /\ event_result' # RaisedInReconcile)
        => /\ InSeq(shell_calls[Len(shell_calls)], shell_calls')
           /\ {id \in RelationIdSet : HasCompleteGrant(id)'}
                = {id \in RelationIdSet : ValidRequest(id)'}
           /\ \A id \in RelationIdSet : ~ValidRequest(id)' =>
                \A u \in UpstreamUsernames : get_username(u, id) \notin users']_vars

IsPrefix(short, long) ==
    Len(short) <= Len(long) /\ short = SubSeq(long, 1, Len(short))

\* The steps of an event that runs to its end, as the claim orders them.
ExpectedSteps ==
    LET authenticated == resolved'.connection_info # None
    IN  <<"relations.database_requires">>
            \o (IF ~is_leader THEN <<>>
                ELSE IF UpstreamTearingDown THEN <<"delete_all_databags">>
                ELSE IF authenticated /\ container_ready THEN <<"reconcile_users">>
                ELSE <<>>)
            \o (IF authenticated /\ container_ready THEN <<"enable">>
                ELSE IF container_ready THEN <<"disable">>
                ELSE <<>>)
            \o (IF is_leader THEN <<"charm.app_status">> ELSE <<>>)
            \o <<"charm.unit_status">>

\* The order of the steps, and what a non-leader leaves alone among the downstream
\* relations and the statuses.
FlowAndLeadership ==
    /\ IsPrefix(steps', ExpectedSteps)
    /\ event_result' = "ok" <=> steps' = ExpectedSteps
    /\ event_result' = RaisedInReconcile => steps'[Len(steps')] = "reconcile_users"
    /\ event_result' \in {"bootstrap_error", "not_ready"} => steps'[Len(steps')] = "enable"
    /\ ~is_leader =>
            /\ provides' = provides
            /\ users' = users
            /\ shell_calls' = <<>>
            /\ app_status' = app_status
            /\ statuses' = statuses
    /\ event_result' = "ok" =>
            unit_status' \in {ActiveStatus, RouterRemoved,
                              MaintenanceStatus("Waiting for container")}

\* C25 as stated: every event other than install and remove runs, in this order, the
\* upstream resolution, on the leader the wipe or the reconciliation of the grants, the
\* enabling or disabling of the workload, and the status report; a non-leader creates and
\* deletes no grant and no backend user at all and sets no application status; the unit
\* status is set on every unit.
C25_AsStated ==
    [][EventHandled =>
        /\ FlowAndLeadership
        /\ ~is_leader =>
                /\ router_user' = router_user
                /\ ~InSeq("delete_user", workload_calls')
                /\ ~InSeq("run_mysql_router --bootstrap", workload_calls')]_vars

\* C25: the order of the steps is as stated; a non-leader creates and deletes no grant
\* and no backend user of a downstream relation and sets no application status; the unit
\* status is set on every unit.  The router's own backend user is another matter:
\* enable() deletes a stale one and bootstraps a new one on every unit, leader or not.
C25_ControlFlow ==
    [][EventHandled =>
        /\ FlowAndLeadership
        /\ (~mysql_router_service_enabled /\ InSeq("enable", steps')) =>
                /\ router_user => InSeq("delete_user", workload_calls')
                /\ InSeq("run_mysql_router --bootstrap", workload_calls')
                /\ router_user' = (event_result' # "bootstrap_error")]_vars

\* A non-leader ran resolution, enable() and the unit status, in that order: valid
\* requests were left without a grant, and the router was bootstrapped.
C25_Witness ==
    /\ ~is_leader
    /\ event_result = "ok"
    /\ steps = <<"relations.database_requires", "enable", "charm.unit_status">>
    /\ InSeq("run_mysql_router --bootstrap", workload_calls)
    /\ router_user
    /\ unit_status = ActiveStatus
    /\ \E id \in RelationIdSet : ValidRequest(id) /\ provides[id].my_app = EmptyBag

\* The calls in `calls` that name a user of relation id, under whatever prefix.
CallsFor(calls, id) ==
    {i \in 1..Len(calls) :
        \/ \E u \in UpstreamUsernames : calls[i][2] = get_username(u, id)
        \/ /\ "username" \in DOMAIN provides[id].my_app
           /\ calls[i][2] = provides[id].my_app["username"]}

\* C26: a reconcile_users pass issues no backend call for a relation that holds a complete
\* grant and is a valid request, and leaves its local databag as it was, whatever
\* database the remote now requests, whatever the router endpoints now are and whatever
\* the upstream username now is; also when the pass fails at a call for another relation.
C26_GrantsUntouched ==
    [][\A id \in RelationIdSet :
            (HasCompleteGrant(id) /\ ValidRequest(id) /\ operation' = "reconcile_users")
            => /\ provides'[id].my_app = provides[id].my_app
               /\ CallsFor(shell_calls', id) = {}
               /\ provides[id].my_app["username"] \in users']_vars

\* The grant of relation 2 names database db, user a-2 and the former endpoints; the
\* remote now requests db2 and the upstream username is a1.  The pass created the user
\* of relation 12 and left relation 2 alone.
C26_Witness ==
    /\ operation = "reconcile_users"
    /\ event_result = "ok"
    /\ requires[1].remote_app["username"] = "a1"
    /\ ValidRequest(2)
    /\ provides[2].remote_app["database"] = "db2"
    /\ provides[2].my_app = [GrantBag("db", "a-2", GeneratedPassword)
                                EXCEPT !["endpoints"] = "file:///run/mysqlrouter/mysql.sock",
                                       !["read-only-endpoints"] = "file:///run/mysqlrouter/mysqlro.sock"]
    /\ shell_calls = <<<<"create_application_database_and_user", "a1-12">>>>

\* C27: a reconcile_users pass that returns revokes the grant of every relation that
\* holds one and is tearing down, has no `database` key or requests an extra user role:
\* its local databag is cleared and delete_user is called exactly once for it; a pass that
\* is aborted has cleared the databag of every relation it called delete_user for; and
\* after a pass that returns no disqualified relation holds a grant.
C27_Revocation ==
    [][operation' = "reconcile_users" =>
        /\ \A id \in RelationIdSet :
                (HasCompleteGrant(id) /\ Exists(id) /\ ~ValidRequest(id))
                => LET deletes == DeleteCalls(shell_calls',
                                              resolved'.connection_info.username, id)
                   IN  /\ event_result' # RaisedInReconcile =>
                                /\ provides'[id].my_app = EmptyBag
                                /\ Cardinality(deletes) = 1
                       /\ deletes # {} => provides'[id].my_app = EmptyBag
                       /\ Cardinality(deletes) <= 1
        /\ event_result' # RaisedInReconcile =>
                \A id \in RelationIdSet :
                    (Exists(id)' /\ ~ValidRequest(id)') => provides'[id].my_app = EmptyBag]_vars

\* A relation that held a grant has set `extra-user-roles`: the pass has cleared its
\* databag and deleted its user, and the grant of the other relation stands.
C27_Witness ==
    /\ ReconcileCompleted
    /\ \E id, other \in RelationIdSet :
        /\ Exists(id) /\ ~TearingDown(id) /\ HasDatabase(id) /\ RequestsExtraRole(id)
        /\ provides[id].my_app = EmptyBag
        /\ shell_calls = <<<<"delete_user",
                             get_username(resolved.connection_info.username, id)>>>>
        /\ get_username(resolved.connection_info.username, id) \notin users
        /\ ValidRequest(other) /\ HasCompleteGrant(other)

\* C28: every delete_user call of a reconcile_users pass names the user recorded in the
\* local databag of a relation whose grant the pass revokes.
C28_AsStated ==
    [][operation' = "reconcile_users" =>
        \A i \in 1..Len(shell_calls') :
            shell_calls'[i][1] = "delete_user" =>
                \E id \in RelationIdSet :
                    /\ HasCompleteGrant(id)
                    /\ ~ValidRequest(id)
                    /\ provides'[id].my_app = EmptyBag
                    /\ shell_calls'[i][2] = provides[id].my_app["username"]]_vars

====
